---------------------------- MODULE Spec2Model ----------------------------
(***************************************************************************)
(* A model of the DualTokenSim automated-market-maker core: the            *)
(* constant-product formula, LiquidityPool.swap with the tokens' free      *)
(* supply bookkeeping, VirtualLiquidityPool.swap with its delta and its    *)
(* recovery methods, the three-pools arbitrage optimizer, and the tokens'  *)
(* setters with mint and burn.                                             *)
(*                                                                         *)
(* Numbers.  The program computes with Python floats.  The model computes  *)
(* with exact rationals n/d (d > 0, lowest terms), so that equalities such *)
(* as "the product of the reserves is unchanged" are statements about the  *)
(* arithmetic the code writes down and not about rounding in the last bit. *)
(* Properties of this model are therefore properties "within floating      *)
(* tolerance" of the program.                                              *)
(*                                                                         *)
(* Exceptions.  A Python call that raises stops where it raises: whatever  *)
(* it assigned before stays assigned.  Every operation below returns a     *)
(* record with ok = FALSE and the state as it stood at the raise.          *)
(***************************************************************************)
EXTENDS Integers, Sequences, FiniteSets, TLC

VARIABLES
    tok,      \* token name -> [supply, free_supply, price]  (Token._supply, ._free_supply, ._price)
    pool,     \* the LiquidityPool object (with the optimizer: its two pools)
    vpool,    \* the VirtualLiquidityPool object
    last,     \* the last call: its arguments and whether it returned or raised
    steps     \* number of calls made so far

vars == <<tok, pool, vpool, last, steps>>

\* ------------------------------------------------------------------ bounds
MaxSteps == 3
\* Calls are made in states whose numbers have numerator and denominator of
\* at most MaxTerm, so that every product of the arithmetic stays exact.
MaxTerm == 32
\* The recovery methods of a virtual pool are called at most MaxRecoverySteps
\* times in a behaviour.
MaxRecoverySteps == 4

\* ------------------------------------------------------- exact rationals
RECURSIVE GCD(_, _)
GCD(a, b) == IF b = 0 THEN a ELSE GCD(b, a % b)

IAbs(i) == IF i < 0 THEN -i ELSE i

\* n/d in lowest terms with a positive denominator
Rat(n, d) ==
    LET s == IF d < 0 THEN -1 ELSE 1
        g == GCD(IAbs(n), IAbs(d))
    IN  [n |-> s * (n \div g), d |-> s * (d \div g)]

FromInt(i) == [n |-> i, d |-> 1]
Zero == FromInt(0)
One == FromInt(1)

RNeg(a) == [n |-> -a.n, d |-> a.d]
RAbs(a) == [n |-> IAbs(a.n), d |-> a.d]

RAdd(a, b) ==
    LET g == GCD(a.d, b.d)
    IN  Rat(a.n * (b.d \div g) + b.n * (a.d \div g), (a.d \div g) * b.d)

RSub(a, b) == RAdd(a, RNeg(b))

RMul(a, b) ==
    LET g1 == GCD(IAbs(a.n), b.d)
        g2 == GCD(IAbs(b.n), a.d)
    IN  [n |-> (a.n \div g1) * (b.n \div g2), d |-> (a.d \div g2) * (b.d \div g1)]

\* b # 0
RDiv(a, b) == RMul(a, Rat(b.d, b.n))

RLt(a, b) ==
    LET g == GCD(a.d, b.d)
    IN  a.n * (b.d \div g) < b.n * (a.d \div g)

RLe(a, b) == a = b \/ RLt(a, b)
RGt(a, b) == RLt(b, a)
RGe(a, b) == RLe(b, a)

\* ------------------------------------------------------------------ tokens
AS == "AS"      \* the algorithmic stablecoin
CT == "CT"      \* the collateral token
RT == "RT"      \* the reference token
XX == "XX"      \* a token that belongs to no pool
Tokens == {AS, CT, RT, XX}

\* Token.is_equal: identity of the two objects
is_equal(t, u) == t = u

FreeSupplyTolerance == Rat(1, 100)
SupplyTolerance == Rat(1, 1000)

\* Token.free_supply setter.  t is the token's record.
set_free_supply(t, new_free_supply) ==
    LET v == IF RGt(FreeSupplyTolerance, new_free_supply)
                /\ RGt(new_free_supply, RNeg(FreeSupplyTolerance))
             THEN Zero ELSE new_free_supply
    IN  IF RLt(v, Zero)
        THEN [ok |-> FALSE, err |-> "Free supply must be a positive number.", t |-> t]
        ELSE IF RGt(v, t.supply)
        THEN [ok |-> FALSE, err |-> "Free supply cannot exceed total supply.", t |-> t]
        ELSE [ok |-> TRUE, err |-> "", t |-> [t EXCEPT !.free_supply = v]]

\* Token.supply setter: the free supply follows the change of the supply.
set_supply(t, new_supply) ==
    IF RLt(new_supply, Zero)
    THEN [ok |-> FALSE, err |-> "Supply cannot be negative.", t |-> t]
    ELSE
    LET f == RAdd(t.free_supply, RSub(new_supply, t.supply))
        v == IF RGt(SupplyTolerance, f) /\ RGt(f, RNeg(SupplyTolerance))
             THEN Zero ELSE f
    IN  IF RLt(v, Zero)
        THEN [ok |-> FALSE,
              err |-> "Reduction in supply cannot result in negative free supply.",
              t |-> t]
        ELSE [ok |-> TRUE, err |-> "", t |-> [t EXCEPT !.supply = new_supply, !.free_supply = v]]

\* Token.price setter
set_price(t, new_price) ==
    IF RGt(new_price, Zero)
    THEN [ok |-> TRUE, err |-> "", t |-> [t EXCEPT !.price = new_price]]
    ELSE [ok |-> FALSE, err |-> "Invalid price. The price must be a positive number.", t |-> t]

\* SeignorageModelToken.mint
mint(t, amount) ==
    IF RLe(amount, Zero)
    THEN [ok |-> FALSE, err |-> "Amount to mint must be positive.", t |-> t]
    ELSE set_supply(t, RAdd(t.supply, amount))

\* SeignorageModelToken.burn
burn(t, amount) ==
    IF RLe(amount, Zero)
    THEN [ok |-> FALSE, err |-> "Amount to burn must be positive.", t |-> t]
    ELSE IF RGt(amount, t.supply)
    THEN [ok |-> FALSE, err |-> "Cannot burn more tokens than the current supply.", t |-> t]
    ELSE set_supply(t, RSub(t.supply, amount))


\* ----------------------------------------------------------------- formula
\* apply with the input left out of the denominator
apply_without_input(input_quantity, input_reserve, output_reserve) ==
    IF RLe(input_quantity, Zero)
    THEN [ok |-> FALSE, err |-> "Input quantity must be positive.", v |-> Zero]
    ELSE IF RLe(input_reserve, Zero)
    THEN [ok |-> FALSE, err |-> "Input reserve must be positive.", v |-> Zero]
    ELSE IF RLe(output_reserve, Zero)
    THEN [ok |-> FALSE, err |-> "Output reserve must be positive.", v |-> Zero]
    ELSE [ok |-> TRUE, err |-> "",
          v |-> RDiv(RMul(output_reserve, input_quantity), input_reserve)]

\* ConstantProductFormula.apply
apply(input_quantity, input_reserve, output_reserve) ==
    IF RLe(input_quantity, Zero)
    THEN [ok |-> FALSE, err |-> "Input quantity must be positive.", v |-> Zero]
    ELSE IF RLe(input_reserve, Zero)
    THEN [ok |-> FALSE, err |-> "Input reserve must be positive.", v |-> Zero]
    ELSE IF RLe(output_reserve, Zero)
    THEN [ok |-> FALSE, err |-> "Output reserve must be positive.", v |-> Zero]
    ELSE [ok |-> TRUE, err |-> "",
          v |-> RDiv(RMul(output_reserve, input_quantity),
                     RAdd(input_reserve, input_quantity))]

\* ConstantProductFormula.inverse_apply: the input that buys output_quantity.
\* It fails on a non-positive argument and when the pool would have to pay
\* out its whole reserve or more.
inverse_apply(output_quantity, input_reserve, output_reserve) ==
    IF RLe(output_quantity, Zero)
    THEN [ok |-> FALSE, err |-> "Output quantity must be positive.", v |-> Zero]
    ELSE IF RLe(input_reserve, Zero)
    THEN [ok |-> FALSE, err |-> "Input reserve must be positive.", v |-> Zero]
    ELSE IF RLe(output_reserve, Zero)
    THEN [ok |-> FALSE, err |-> "Output reserve must be positive.", v |-> Zero]
    ELSE IF RGe(output_quantity, output_reserve)
    THEN [ok |-> FALSE, err |-> "Output quantity must be less than the output reserve.",
          v |-> Zero]
    ELSE [ok |-> TRUE, err |-> "",
          v |-> RDiv(RMul(input_reserve, output_quantity),
                     RSub(output_reserve, output_quantity))]

\* ---------------------------------------------------------- LiquidityPool
\* compute_swap_value with the fee added to the input
compute_swap_value_fee_added(p, input_quantity, input_reserve, output_reserve) ==
    LET effective_input == RMul(input_quantity, RAdd(One, p.fee))
    IN  apply(effective_input, input_reserve, output_reserve)

\* LiquidityPool.compute_swap_value: the fee is taken from the input
compute_swap_value(p, input_quantity, input_reserve, output_reserve) ==
    LET effective_input == RMul(input_quantity, RSub(One, p.fee))
    IN  apply(effective_input, input_reserve, output_reserve)

\* compute_inverse_swap_value with the fee deducted from the computed input
compute_inverse_swap_value_fee_deducted(p, output_quantity, input_reserve, output_reserve) ==
    LET r == inverse_apply(output_quantity, input_reserve, output_reserve)
    IN  IF ~r.ok THEN r
        ELSE [ok |-> TRUE, err |-> "", v |-> RMul(r.v, RSub(One, p.fee))]

\* LiquidityPool.compute_inverse_swap_value: the computed input is inflated
\* by 1/(1 - fee)
compute_inverse_swap_value(p, output_quantity, input_reserve, output_reserve) ==
    LET r == inverse_apply(output_quantity, input_reserve, output_reserve)
    IN  IF ~r.ok THEN r
        ELSE [ok |-> TRUE, err |-> "", v |-> RDiv(r.v, RSub(One, p.fee))]

\* LiquidityPool.update_pool_quantities
update_pool_quantities(p, new_quantity_token_a, new_quantity_token_b) ==
    IF RLt(new_quantity_token_a, Zero) \/ RLt(new_quantity_token_b, Zero)
    THEN [ok |-> FALSE, err |-> "Token quantity in the pool cannot be negative.", p |-> p]
    ELSE [ok |-> TRUE, err |-> "",
          p |-> [p EXCEPT !.quantity_token_a = new_quantity_token_a,
                          !.quantity_token_b = new_quantity_token_b]]

\* amount / abs(amount), amount # 0
Sign(amount) == IF RLt(amount, Zero) THEN RNeg(One) ELSE One

\* The tokens after an assignment to one token's supply or free_supply: r is
\* what the setter answered.  Nothing is stored when the setter raised.
StoreToken(tk, token, r) ==
    [ok |-> r.ok, err |-> r.err, tk |-> IF r.ok THEN [tk EXCEPT ![token] = r.t] ELSE tk]

\* token.free_supply += change
add_free_supply(tk, token, change) ==
    StoreToken(tk, token, set_free_supply(tk[token], RAdd(tk[token].free_supply, change)))

\* the second assignment of update_supplies; r1 is how the first one ended
LP_update_other_supply(r1, other_token, change) ==
    IF ~r1.ok THEN r1 ELSE add_free_supply(r1.tk, other_token, change)

\* update_supplies without the amount # 0 guard: amount / abs(amount) divides
\* by zero after the first assignment
LP_update_supplies_unguarded(tk, token, other_token, amount, other_amount) ==
    IF amount = Zero
    THEN [ok |-> FALSE, err |-> "float division by zero", tk |-> tk]
    ELSE LP_update_other_supply(add_free_supply(tk, token, RNeg(amount)),
                                other_token, RMul(other_amount, Sign(amount)))

\* LiquidityPool.update_supplies: the two free supplies move opposite to the
\* reserves.  The first assignment stays when the second one raises.
LP_update_supplies(tk, token, other_token, amount, other_amount) ==
    IF amount = Zero
    THEN [ok |-> TRUE, err |-> "", tk |-> tk]
    ELSE LP_update_other_supply(add_free_supply(tk, token, RNeg(amount)),
                                other_token, RMul(other_amount, Sign(amount)))

\* other_token.mint(other_amount); r1 is how token.burn(amount) ended
VLP_mint_other(r1, other_token, other_amount) ==
    IF ~r1.ok THEN r1
    ELSE StoreToken(r1.tk, other_token, mint(r1.tk[other_token], other_amount))

\* VirtualLiquidityPool.update_supplies: the input is burned, the output is
\* minted.  The burn stays when the mint raises.
VLP_update_supplies(tk, token, other_token, amount, other_amount) ==
    VLP_mint_other(StoreToken(tk, token, burn(tk[token], amount)),
                   other_token, other_amount)

\* self.update_supplies(...), dispatched on the class of the pool
update_supplies(p, tk, token, other_token, amount, other_amount) ==
    IF p.virtual
    THEN VLP_update_supplies(tk, token, other_token, amount, other_amount)
    ELSE LP_update_supplies(tk, token, other_token, amount, other_amount)

\* What a call leaves behind and hands back.
Raised(p, tk, err) ==
    [ok |-> FALSE, err |-> err, p |-> p, tk |-> tk,
     other_token |-> "", other_amount |-> Zero]

Returned(p, tk, other_token, other_amount) ==
    [ok |-> TRUE, err |-> "", p |-> p, tk |-> tk,
     other_token |-> other_token, other_amount |-> other_amount]

\* swap_reserves that takes the sides of a deposit for a withdrawal too
swap_reserves_of_deposit(p, token, amount) ==
    IF is_equal(token, p.token_a)
    THEN <<p.quantity_token_a, p.quantity_token_b>>
    ELSE <<p.quantity_token_b, p.quantity_token_a>>

\* The reserve pair LiquidityPool.swap works on: <<input_reserve, output_reserve>>.
\* A negative amount makes the token's own reserve the output side.
swap_reserves(p, token, amount) ==
    IF is_equal(token, p.token_a)
    THEN IF RGe(amount, Zero)
         THEN <<p.quantity_token_a, p.quantity_token_b>>
         ELSE <<p.quantity_token_b, p.quantity_token_a>>
    ELSE IF RGe(amount, Zero)
         THEN <<p.quantity_token_b, p.quantity_token_a>>
         ELSE <<p.quantity_token_a, p.quantity_token_b>>

\* a membership test that lets every token through
valid_token_unchecked(p, token) == TRUE

\* the token membership test that opens LiquidityPool.swap
valid_token(p, token) == token \in {p.token_a, p.token_b}

\* the other token of the pool, as LiquidityPool.swap picks it
other_token_of(p, token) == IF is_equal(token, p.token_a) THEN p.token_b ELSE p.token_a

\* The end of LiquidityPool.swap: sup is how self.update_supplies ended on
\* the pool p with its new reserves.
swap_return(p, other_token, other_amount, sup) ==
    IF ~sup.ok THEN Raised(p, sup.tk, sup.err)
    ELSE Returned(p, sup.tk, other_token, other_amount)

\* LiquidityPool.swap from self.update_supplies on
swap_supplies(p, tk, token, amount, other_amount) ==
    swap_return(p, other_token_of(p, token), other_amount,
                update_supplies(p, tk, token, other_token_of(p, token), amount, other_amount))

\* LiquidityPool.swap after update_pool_quantities answered upd
swap_stored(p, tk, token, amount, other_amount, upd) ==
    IF ~upd.ok THEN Raised(p, tk, upd.err)
    ELSE swap_supplies(upd.p, tk, token, amount, other_amount)

\* The branch amount > 0 once compute_swap_value answered c; rs is the pair
\* <<input_reserve, output_reserve>>.
swap_forward(p, tk, token, amount, rs, c) ==
    IF ~c.ok THEN Raised(p, tk, c.err)
    ELSE swap_stored(p, tk, token, amount, c.v,
            IF is_equal(token, p.token_a)
            THEN update_pool_quantities(p, RAdd(rs[1], amount), RSub(rs[2], c.v))
            ELSE update_pool_quantities(p, RSub(rs[2], c.v), RAdd(rs[1], amount)))

\* The branch amount < 0 once compute_inverse_swap_value answered c.
swap_reverse(p, tk, token, amount, rs, c) ==
    IF ~c.ok THEN Raised(p, tk, c.err)
    ELSE swap_stored(p, tk, token, amount, c.v,
            IF is_equal(token, p.token_a)
            THEN update_pool_quantities(p, RSub(rs[2], RNeg(amount)), RAdd(rs[1], c.v))
            ELSE update_pool_quantities(p, RAdd(rs[1], c.v), RSub(rs[2], RNeg(amount))))

\* LiquidityPool.swap once the reserve pair rs is chosen
swap_on(p, tk, token, amount, rs) ==
    IF RGt(amount, Zero)
    THEN swap_forward(p, tk, token, amount, rs,
                      compute_swap_value(p, amount, rs[1], rs[2]))
    ELSE IF RLt(amount, Zero)
    THEN swap_reverse(p, tk, token, amount, rs,
                      compute_inverse_swap_value(p, RNeg(amount), rs[1], rs[2]))
    ELSE swap_supplies(p, tk, token, amount, Zero)

\* LiquidityPool.swap on pool p with the tokens in state tk
swap(p, tk, token, amount) ==
    IF ~valid_token(p, token)
    THEN Raised(p, tk, "Invalid input token for this liquidity pool.")
    ELSE swap_on(p, tk, token, amount, swap_reserves(p, token, amount))

\* --------------------------------------------------- VirtualLiquidityPool
\* SimpleVirtualLiquidityPool.update_delta
Simple_update_delta(p, delta_variation) ==
    [p EXCEPT !.delta = RAdd(p.delta, delta_variation)]

\* update_delta that spreads the variation as if the window had its full
\* length
Improved_update_delta_by_period(p, delta_variation) ==
    [p EXCEPT !.delta = RAdd(p.delta, delta_variation),
              !.restore_values =
                  [i \in 1..Len(p.restore_values) |->
                      RAdd(p.restore_values[i],
                           RDiv(delta_variation, FromInt(p.pool_recovery_period)))]]

\* ImprovedVirtualLiquidityPool.update_delta: the variation is also spread
\* evenly over the window of scheduled corrections
Improved_update_delta(p, delta_variation) ==
    LET spread_amount == RDiv(delta_variation, FromInt(Len(p.restore_values)))
    IN  [p EXCEPT !.delta = RAdd(p.delta, delta_variation),
                  !.restore_values =
                      [i \in 1..Len(p.restore_values) |->
                          RAdd(p.restore_values[i], spread_amount)]]

\* self.update_delta(...), dispatched on the class of the pool
update_delta(p, delta_variation) ==
    IF p.policy = "Improved"
    THEN Improved_update_delta(p, delta_variation)
    ELSE Simple_update_delta(p, delta_variation)

\* a delta variation that takes the amount whichever token came in
delta_variation_of_amount(p, token, amount, output_amount) == amount

\* the stablecoin that a swap of the virtual pool moved into the pool
delta_variation_of(p, token, amount, output_amount) ==
    IF is_equal(token, p.token_a) THEN amount ELSE RNeg(output_amount)

\* VirtualLiquidityPool.swap after super().swap answered r
VLP_swap_delta(token, amount, r) ==
    IF ~r.ok THEN r
    ELSE Returned(update_delta(r.p, delta_variation_of(r.p, token, amount, r.other_amount)),
                  r.tk, r.other_token, r.other_amount)

\* a swap that runs on the reserves the pool has stored
VLP_reserves_stored(p) == p

\* The reserves of a virtual pool as its swap rebuilds them: the base
\* quantity plus delta, and the base quantity at the collateral price.
VLP_reserves(p) ==
    [p EXCEPT !.quantity_token_a = RAdd(p.stablecoin_base_quantity, p.delta),
              !.quantity_token_b = RDiv(p.stablecoin_base_quantity, p.collateral_price)]

\* VirtualLiquidityPool.swap: the reserves are rebuilt, the swap of
\* LiquidityPool runs on them, and delta takes the stablecoin that went in or
\* came out.
VLP_swap(p, tk, token, amount) ==
    VLP_swap_delta(token, amount, swap(VLP_reserves(p), tk, token, amount))

\* VirtualLiquidityPool.update_collateral_price
update_collateral_price(p, new_price) == [p EXCEPT !.collateral_price = new_price]

\* ------------------------------------------------- recovery of the delta
\* compute_reserve that subtracts the formula's answer in both branches
compute_reserve_of_forward(output_reserve, r, input_left) ==
    IF ~r.ok THEN r ELSE [r EXCEPT !.v = RSub(output_reserve, r.v)]

\* Formula.compute_reserve once the formula answered r: the output reserve
\* takes r.v when input left the pool and gives r.v when input came in
compute_reserve_of(output_reserve, r, input_left) ==
    IF ~r.ok THEN r
    ELSE [r EXCEPT !.v = IF input_left THEN RAdd(output_reserve, r.v)
                         ELSE RSub(output_reserve, r.v)]

\* Formula.compute_reserve
compute_reserve(input_reserve, output_reserve, new_input_reserve) ==
    IF RGt(input_reserve, new_input_reserve)
    THEN compute_reserve_of(output_reserve,
             inverse_apply(RSub(input_reserve, new_input_reserve), output_reserve, input_reserve),
             TRUE)
    ELSE compute_reserve_of(output_reserve,
             apply(RSub(new_input_reserve, input_reserve), input_reserve, output_reserve),
             FALSE)

\* restore_delta with the decay factor 1/pool_recovery_period
Simple_restore_delta_by_period(p) ==
    [ok |-> TRUE, err |-> "",
     p |-> [p EXCEPT !.delta = RMul(p.delta, RDiv(One, FromInt(p.pool_recovery_period)))]]

\* SimpleVirtualLiquidityPool.restore_delta
Simple_restore_delta(p) ==
    [ok |-> TRUE, err |-> "",
     p |-> [p EXCEPT !.delta =
               RMul(p.delta, RSub(One, RDiv(One, FromInt(p.pool_recovery_period))))]]

\* ImprovedVirtualLiquidityPool.values: the thresholds 0.95, 0.955, ..., 0.99
values == [i \in 1..9 |-> RAdd(Rat(95, 100), RMul(FromInt(i - 1), Rat(5, 1000)))]

\* Python's round(r, 5): the nearest multiple of 10^-5, a tie going to the
\* even one
round5(r) ==
    LET s == r.n * 100000
        q == s \div r.d
        twice == 2 * (s % r.d)
    IN  IF twice > r.d \/ (twice = r.d /\ q % 2 = 1)
        THEN Rat(q + 1, 100000) ELSE Rat(q, 100000)

\* Python's int(r): truncation toward zero
int(r) == IF r.n >= 0 THEN r.n \div r.d ELSE -((-r.n) \div r.d)

\* a Python number given as an argument: its value and whether its type is int
IntArg(k) == [int |-> TRUE, v |-> FromInt(k)]
FloatArg(r) == [int |-> FALSE, v |-> r]

\* the positions i of reversed(values) that the stablecoin price exceeds
PassedThresholds(p) == {i \in 0..8 : RGt(p.stablecoin_price, values[9 - i])}

\* ImprovedVirtualLiquidityPool.compute_restore_values_new_length
compute_restore_values_new_length(p) ==
    IF PassedThresholds(p) = {} THEN 1
    ELSE LET i == CHOOSE x \in PassedThresholds(p) : \A y \in PassedThresholds(p) : x <= y
         IN  int(round5(RMul(FromInt(p.pool_recovery_period),
                             RSub(One, RMul(FromInt(i), Rat(1, 10))))))

RECURSIVE sum(_)
\* Python's sum of a list
sum(seq) == IF seq = << >> THEN Zero ELSE RAdd(Head(seq), sum(Tail(seq)))

\* shrink_restore_values that drops the excess instead of redistributing it
shrink_restore_values_truncating(p, new_length) ==
    IF RLt(new_length.v, One) \/ ~new_length.int
    THEN [ok |-> FALSE, err |-> "new_length must be an integer greater than or equal to 1",
          p |-> p]
    ELSE IF new_length.v.n >= Len(p.restore_values)
    THEN [ok |-> TRUE, err |-> "",
          p |-> [p EXCEPT !.restore_values =
                    @ \o [i \in 1..(new_length.v.n - Len(@)) |-> Zero]]]
    ELSE [ok |-> TRUE, err |-> "",
          p |-> [p EXCEPT !.restore_values = SubSeq(@, 1, new_length.v.n)]]

\* ImprovedVirtualLiquidityPool.shrink_restore_values
shrink_restore_values(p, new_length) ==
    IF RLt(new_length.v, One) \/ ~new_length.int
    THEN [ok |-> FALSE, err |-> "new_length must be an integer greater than or equal to 1",
          p |-> p]
    ELSE IF new_length.v.n >= Len(p.restore_values)
    THEN [ok |-> TRUE, err |-> "",
          p |-> [p EXCEPT !.restore_values =
                    @ \o [i \in 1..(new_length.v.n - Len(@)) |-> Zero]]]
    ELSE [ok |-> TRUE, err |-> "",
          p |-> [p EXCEPT !.restore_values =
                    [i \in 1..new_length.v.n |->
                        RAdd(@[i], RDiv(sum(SubSeq(@, new_length.v.n + 1, Len(@))),
                                        new_length.v))]]]

\* the shift that consumes the last slot of the window instead of the first
Improved_restore_delta_shift_last(r) ==
    IF ~r.ok THEN r
    ELSE [r EXCEPT !.p.delta = RSub(@, r.p.restore_values[Len(r.p.restore_values)]),
                   !.p.restore_values = Tail(@) \o <<Zero>>]

\* ImprovedVirtualLiquidityPool.restore_delta once shrink_restore_values
\* answered r: delta gives up the first scheduled correction and the window
\* shifts left
Improved_restore_delta_shift(r) ==
    IF ~r.ok THEN r
    ELSE [r EXCEPT !.p.delta = RSub(@, r.p.restore_values[1]),
                   !.p.restore_values = Tail(@) \o <<Zero>>]

\* ImprovedVirtualLiquidityPool.restore_delta
Improved_restore_delta(p) ==
    Improved_restore_delta_shift(
        shrink_restore_values(p, IntArg(compute_restore_values_new_length(p))))

\* self.restore_delta(), dispatched on the class of the pool
restore_delta(p) ==
    IF p.policy = "Improved" THEN Improved_restore_delta(p) ELSE Simple_restore_delta(p)

\* update_token_quantities that rebuilds the collateral at its price
update_token_quantities_at_price(p) ==
    [ok |-> TRUE, err |-> "", p |-> VLP_reserves(p)]

\* VirtualLiquidityPool.update_token_quantities once compute_reserve answered r
update_token_quantities_to(p, r) ==
    IF ~r.ok THEN [ok |-> FALSE, err |-> r.err, p |-> p]
    ELSE [ok |-> TRUE, err |-> "",
          p |-> [p EXCEPT !.quantity_token_b = r.v,
                          !.quantity_token_a = RAdd(p.stablecoin_base_quantity, p.delta)]]

\* VirtualLiquidityPool.update_token_quantities
update_token_quantities(p) ==
    update_token_quantities_to(p,
        compute_reserve(p.quantity_token_a, p.quantity_token_b,
                        RAdd(p.stablecoin_base_quantity, p.delta)))

\* perform_pool_replenishing once restore_delta answered r
perform_pool_replenishing_after(r) ==
    IF ~r.ok THEN r ELSE update_token_quantities(r.p)

\* VirtualLiquidityPool.perform_pool_replenishing
perform_pool_replenishing(p) == perform_pool_replenishing_after(restore_delta(p))

\* ImprovedVirtualLiquidityPool.update_stablecoin_price
update_stablecoin_price(p, stablecoin_price) ==
    [p EXCEPT !.stablecoin_price = stablecoin_price]

\* reset_replenishing_system of either class
reset_replenishing_system(p) ==
    [p EXCEPT !.delta = Zero,
              !.restore_values = IF p.policy = "Improved"
                                 THEN [i \in 1..p.pool_recovery_period |-> Zero]
                                 ELSE @]

\* --------------------------------------------- ThreePoolsArbitrageOptimizer
\* lps is the list liquidity_pools (lps[0] trades the stablecoin, lps[1] the
\* collateral, both against the reference token) and v the virtual pool.

\* ThreePoolsArbitrageOptimizer.__init__: self.max_arbitrage_input
max_arbitrage_input == 1000000

\* Python's min
min(a, b) == IF RLt(b, a) THEN b ELSE a

\* get_arbitrage_profit: first_pool and second_pool of an arbitrage type
first_pool(lps, arbitrage_type) == IF arbitrage_type = "Type 1" THEN lps[1] ELSE lps[0]
second_pool(lps, arbitrage_type) == IF arbitrage_type = "Type 1" THEN lps[0] ELSE lps[1]

\* get_arbitrage_profit: the leg through the first pool, reference token in
profit_first_leg(p, rt_input_quantity) ==
    compute_swap_value(p, rt_input_quantity, p.quantity_token_b, p.quantity_token_a)

\* the leg through the virtual pool that sells the stablecoin in both types
profit_virtual_leg_type2(v, arbitrage_type, x) ==
    IF ~x.ok THEN x
    ELSE compute_swap_value(v, x.v, v.quantity_token_a, v.quantity_token_b)

\* get_arbitrage_profit: the leg through the virtual pool once the first
\* pool answered x
profit_virtual_leg(v, arbitrage_type, x) ==
    IF ~x.ok THEN x
    ELSE IF arbitrage_type = "Type 1"
    THEN compute_swap_value(v, x.v, v.quantity_token_b, v.quantity_token_a)
    ELSE compute_swap_value(v, x.v, v.quantity_token_a, v.quantity_token_b)

\* get_arbitrage_profit: the leg through the second pool once the virtual
\* pool answered y
profit_second_leg(p, y) ==
    IF ~y.ok THEN y
    ELSE compute_swap_value(p, y.v, p.quantity_token_a, p.quantity_token_b)

\* the profit taken to be the whole output
profit_of_output(rt_output_quantity, rt_input_quantity) == rt_output_quantity

\* get_arbitrage_profit: rt_output_quantity - rt_input_quantity
profit_of(rt_output_quantity, rt_input_quantity) ==
    IF ~rt_output_quantity.ok THEN rt_output_quantity
    ELSE [rt_output_quantity EXCEPT !.v = RSub(@, rt_input_quantity)]

\* ThreePoolsArbitrageOptimizer.get_arbitrage_profit
get_arbitrage_profit(lps, v, arbitrage_type, rt_input_quantity) ==
    IF RGt(rt_input_quantity, Zero)
    THEN profit_of(
             profit_second_leg(second_pool(lps, arbitrage_type),
                 profit_virtual_leg(v, arbitrage_type,
                     profit_first_leg(first_pool(lps, arbitrage_type), rt_input_quantity))),
             rt_input_quantity)
    ELSE [ok |-> TRUE, err |-> "", v |-> Zero]

\* what detect_arbitrage answers: its tuple, or the exception of a probe
Detected(arbitrage_type, arbitrage_available) ==
    [ok |-> TRUE, err |-> "", type |-> arbitrage_type, available |-> arbitrage_available]

\* detect_arbitrage with the two types taken for each other
detect_arbitrage_types_swapped(t1_profit, t2_profit) ==
    IF ~t1_profit.ok THEN [Detected("", FALSE) EXCEPT !.ok = FALSE, !.err = t1_profit.err]
    ELSE IF ~t2_profit.ok THEN [Detected("", FALSE) EXCEPT !.ok = FALSE, !.err = t2_profit.err]
    ELSE IF RGt(t1_profit.v, Zero) THEN Detected("Type 2", TRUE)
    ELSE IF RGt(t2_profit.v, Zero) THEN Detected("Type 1", TRUE)
    ELSE Detected("", FALSE)

\* detect_arbitrage once the two unit probes answered
detect_arbitrage_from(t1_profit, t2_profit) ==
    IF ~t1_profit.ok THEN [Detected("", FALSE) EXCEPT !.ok = FALSE, !.err = t1_profit.err]
    ELSE IF ~t2_profit.ok THEN [Detected("", FALSE) EXCEPT !.ok = FALSE, !.err = t2_profit.err]
    ELSE IF RGt(t1_profit.v, Zero) THEN Detected("Type 1", TRUE)
    ELSE IF RGt(t2_profit.v, Zero) THEN Detected("Type 2", TRUE)
    ELSE Detected("", FALSE)

\* ThreePoolsArbitrageOptimizer.detect_arbitrage
detect_arbitrage(lps, v) ==
    detect_arbitrage_from(get_arbitrage_profit(lps, v, "Type 1", One),
                          get_arbitrage_profit(lps, v, "Type 2", One))

\* compute_max_arbitrage_profit that returns result.x whatever the solver says
compute_max_arbitrage_profit_unchecked(lps, v, arbitrage_type, result) ==
    [ok |-> TRUE, err |-> "", v |-> result.x]

\* ThreePoolsArbitrageOptimizer.compute_max_arbitrage_profit.  result is what
\* scipy's minimize_scalar answered: whether it converged, and an x within
\* the bounds (1, max_arbitrage_input).
compute_max_arbitrage_profit(lps, v, arbitrage_type, result) ==
    IF result.success
    THEN [ok |-> TRUE, err |-> "", v |-> result.x]
    ELSE [ok |-> FALSE, err |-> "Optimization failed.", v |-> Zero]

\* The optimizer's world while leverage_arbitrage_opportunity runs: the three
\* pools, the tokens, the swaps made so far, and the (token, x) that the last
\* swap returned.
Leverage(lps, v, tk) ==
    [ok |-> TRUE, err |-> "", lps |-> lps, v |-> v, tk |-> tk,
     swaps |-> << >>, token |-> "", x |-> Zero]

\* the name of self.liquidity_pools[i]
PoolName(i) == IF i = 0 THEN "liquidity_pools[0]" ELSE "liquidity_pools[1]"

\* one swap of the chain: on which pool, what went in, what came out
SwapMade(pool_id, token, amount, r) ==
    [pool |-> pool_id, token |-> token, amount |-> amount, ok |-> r.ok,
     other_token |-> r.other_token, other_amount |-> r.other_amount]

\* self.liquidity_pools[i].swap(token, amount) answered r
after_pool_swap(s, i, token, amount, r) ==
    [ok |-> r.ok, err |-> r.err, lps |-> [s.lps EXCEPT ![i] = r.p], v |-> s.v, tk |-> r.tk,
     swaps |-> Append(s.swaps, SwapMade(PoolName(i), token, amount, r)),
     token |-> r.other_token, x |-> r.other_amount]

\* self.virtual_liquidity_pool.swap(token, amount) answered r
after_virtual_swap(s, token, amount, r) ==
    [ok |-> r.ok, err |-> r.err, lps |-> s.lps, v |-> r.p, tk |-> r.tk,
     swaps |-> Append(s.swaps, SwapMade("virtual_liquidity_pool", token, amount, r)),
     token |-> r.other_token, x |-> r.other_amount]

\* token, x = self.liquidity_pools[i].swap(token, amount)
pool_swap(s, i, token, amount) ==
    IF ~s.ok THEN s
    ELSE after_pool_swap(s, i, token, amount, swap(s.lps[i], s.tk, token, amount))

\* token, x = self.virtual_liquidity_pool.swap(token, amount)
virtual_swap(s, token, amount) ==
    IF ~s.ok THEN s
    ELSE after_virtual_swap(s, token, amount, VLP_swap(s.v, s.tk, token, amount))

\* the third swap of a chain, on the (token, x) that the second returned
chain_last(s, last_pool) == pool_swap(s, last_pool, s.token, s.x)

\* a chain whose second and third swap take the first swap's input again
chain_through_with_trade_amount(s, trade_amount, last_pool) ==
    pool_swap(virtual_swap(s, s.token, trade_amount), last_pool, s.token, trade_amount)

\* leverage_arbitrage_opportunity: the two swaps that follow the first one,
\* each on the (token, x) that the swap before it returned
chain_through(s, trade_amount, last_pool) ==
    chain_last(virtual_swap(s, s.token, s.x), last_pool)

\* leverage_arbitrage_opportunity: the three swaps of a type
leverage_swaps(s, arbitrage_type, trade_amount) ==
    IF arbitrage_type = "Type 1"
    THEN chain_through(pool_swap(s, 1, s.lps[1].token_b, trade_amount), trade_amount, 0)
    ELSE chain_through(pool_swap(s, 0, s.lps[0].token_b, trade_amount), trade_amount, 1)

\* leverage_arbitrage_opportunity once compute_max_arbitrage_profit answered r
leverage_trade(s, arbitrage_type, r) ==
    IF ~r.ok THEN [s EXCEPT !.ok = FALSE, !.err = r.err]
    ELSE leverage_swaps(s, arbitrage_type, min(r.v, FromInt(max_arbitrage_input)))

\* leverage_arbitrage_opportunity once detect_arbitrage answered d
leverage_detected(s, d, result) ==
    IF ~d.ok THEN [s EXCEPT !.ok = FALSE, !.err = d.err]
    ELSE IF ~d.available THEN s
    ELSE leverage_trade(s, d.type,
             compute_max_arbitrage_profit(s.lps, s.v, d.type, result))

\* ThreePoolsArbitrageOptimizer.leverage_arbitrage_opportunity
leverage_arbitrage_opportunity(lps, v, tk, result) ==
    leverage_detected(Leverage(lps, v, tk), detect_arbitrage(lps, v), result)

\* ------------------------------------------------------------ construction
\* Token.__init__
NewToken(initial_supply, initial_free_supply, initial_price) ==
    [supply |-> initial_supply, free_supply |-> initial_free_supply, price |-> initial_price]

\* LiquidityPool.__init__
NewLiquidityPool(token_a, token_b, quantity_token_a, quantity_token_b, fee) ==
    [virtual |-> FALSE, token_a |-> token_a, token_b |-> token_b,
     quantity_token_a |-> quantity_token_a, quantity_token_b |-> quantity_token_b,
     fee |-> fee]

\* VirtualLiquidityPool.__init__ followed by the subclass's __init__
NewVirtualLiquidityPool(policy, stablecoin, collateral, stablecoin_base_quantity, collateral_price, fee, pool_recovery_period) ==
    [virtual |-> TRUE, policy |-> policy,
     token_a |-> stablecoin, token_b |-> collateral,
     quantity_token_a |-> stablecoin_base_quantity,
     quantity_token_b |-> RDiv(stablecoin_base_quantity, collateral_price),
     fee |-> fee,
     stablecoin_base_quantity |-> stablecoin_base_quantity,
     collateral_price |-> collateral_price,
     delta |-> Zero,
     pool_recovery_period |-> pool_recovery_period,
     stablecoin_price |-> One,   \* stablecoin.price: the stablecoin is built at its peg
     restore_values |-> IF policy = "Improved"
                        THEN [i \in 1..pool_recovery_period |-> Zero]
                        ELSE << >>]

\* The record of a call: what was called with what, and how it ended.
NoCall ==
    [op |-> "none", token |-> "", amount |-> Zero, ok |-> TRUE, err |-> "",
     other_token |-> "", other_amount |-> Zero]

Call(op, token, amount, r) ==
    [op |-> op, token |-> token, amount |-> amount, ok |-> r.ok, err |-> r.err,
     other_token |-> r.other_token, other_amount |-> r.other_amount]

\* A call ended as r: the pool and the tokens are as it left them.
Ends(op, token, amount, r, p_next, tok_next, last_next) ==
    /\ p_next = r.p
    /\ tok_next = r.tk
    /\ last_next = Call(op, token, amount, r)

\* r is a number the model computes exactly with
Small(r) == IAbs(r.n) <= MaxTerm /\ r.d <= MaxTerm

\* the reserves of p and the supplies of the tokens are such numbers
Representable(p, tk) ==
    /\ Small(p.quantity_token_a) /\ Small(p.quantity_token_b)
    /\ \A t \in DOMAIN tk : Small(tk[t].supply) /\ Small(tk[t].free_supply)

\* ------------------------------------------------- inputs of the behaviours
Reserves == {FromInt(2), FromInt(3), Rat(5, 2)}
Fees == {Zero, Rat(1, 2), Rat(1, 10)}
Amounts == {FromInt(-3), FromInt(-1), Zero, FromInt(1), FromInt(2)}
InitialSupply == FromInt(16)
FreeSupplies == {FromInt(1), FromInt(8)}
CollateralPrices == {FromInt(1), FromInt(2)}
StablecoinPrices == {One, Rat(97, 100), Rat(24, 25)}

TokInit ==
    tok \in {[t \in Tokens |->
                IF t = AS THEN NewToken(InitialSupply, f, One)
                ELSE NewToken(InitialSupply, FromInt(8), One)]
             : f \in FreeSupplies}

\* -------------------------------------------- a liquidity pool under swaps
LPInit ==
    /\ TokInit
    /\ pool \in {NewLiquidityPool(AS, RT, a, b, f) : a \in Reserves, b \in Reserves, f \in Fees}
    /\ vpool = NewVirtualLiquidityPool("Simple", AS, CT, FromInt(4), One, Zero, 2)
    /\ last = NoCall
    /\ steps = 0

LPSwap ==
    /\ steps < MaxSteps
    /\ Representable(pool, tok)
    /\ \E token \in {AS, RT, XX}, amount \in Amounts :
          Ends("swap", token, amount, swap(pool, tok, token, amount), pool', tok', last')
    /\ steps' = steps + 1
    /\ UNCHANGED vpool

LPNext == LPSwap

SpecLP == LPInit /\ [][LPNext]_vars


\* ------------------------------------------------------------ vocabulary
\* the pool's reserve of one of its two tokens
Reserve(p, token) ==
    IF token = p.token_a THEN p.quantity_token_a ELSE p.quantity_token_b

\* the other token of the pool
OtherToken(p, token) == IF token = p.token_a THEN p.token_b ELSE p.token_a

\* quantity_token_a * quantity_token_b
Product(p) == RMul(p.quantity_token_a, p.quantity_token_b)

\* the step is a LiquidityPool.swap call that returned
SwapReturned == last'.op = "swap" /\ steps' = steps + 1 /\ last'.ok

\* the step is a LiquidityPool.swap call with a token of the pool
SwapOfPoolToken ==
    last'.op = "swap" /\ steps' = steps + 1 /\ last'.token \in {pool.token_a, pool.token_b}

\* ------------------------------------------------------------------- C1
\* C1: over successful swaps of a constant-product pool the product
\* quantity_token_a * quantity_token_b never decreases; a swap leaves it
\* unchanged when fee = 0 and strictly increases it when fee > 0 and
\* amount # 0.
C1_ProductNeverDecreases ==
    [][SwapReturned =>
         /\ RGe(Product(pool'), Product(pool))
         /\ (pool.fee = Zero => Product(pool') = Product(pool))
         /\ (RGt(pool.fee, Zero) /\ last'.amount # Zero
               => RGt(Product(pool'), Product(pool)))]_vars

\* a second or later swap returned, a reverse one, on a pool that takes a fee
C1_Witness ==
    /\ last.op = "swap" /\ last.ok /\ steps >= 2
    /\ RLt(last.amount, Zero) /\ RGt(pool.fee, Zero)

\* ------------------------------------------------------------------- C2
\* C2: a swap of amount > 0 of a pool token returns (other_token, out) with
\* out = output_reserve * amount*(1-fee) / (input_reserve + amount*(1-fee));
\* the reserve of the token grows by the full amount and the reserve of the
\* other token shrinks by out.  Reserves (5000, 5000), fee 0, 100 of token_a:
\* out = 5000*100/5100 and the reserves become (5100, 5000 - out).
C2_Example ==
    LET p == NewLiquidityPool(AS, RT, FromInt(5000), FromInt(5000), Zero)
        tk == [t \in Tokens |-> NewToken(FromInt(10000), FromInt(5000), One)]
        r == swap(p, tk, AS, FromInt(100))
    IN  /\ r.ok /\ r.other_token = RT
        /\ r.other_amount = Rat(5000 * 100, 5100)
        /\ r.p.quantity_token_a = FromInt(5100)
        /\ r.p.quantity_token_b = RSub(FromInt(5000), Rat(5000 * 100, 5100))

C2_ForwardSwap ==
    [][SwapReturned /\ RGt(last'.amount, Zero) =>
         LET token == last'.token
             amount == last'.amount
             input_reserve == Reserve(pool, token)
             output_reserve == Reserve(pool, OtherToken(pool, token))
             effective == RMul(amount, RSub(One, pool.fee))
             out == RDiv(RMul(output_reserve, effective), RAdd(input_reserve, effective))
         IN  /\ last'.other_token = OtherToken(pool, token)
             /\ last'.other_amount = out
             /\ Reserve(pool', token) = RAdd(input_reserve, amount)
             /\ Reserve(pool', OtherToken(pool, token)) = RSub(output_reserve, out)
             /\ C2_Example]_vars

\* a forward swap of the pool's token_b returned on a pool that takes a fee
C2_Witness ==
    /\ last.op = "swap" /\ last.ok /\ RGt(last.amount, Zero)
    /\ last.token = pool.token_b /\ RGt(pool.fee, Zero)

C6_NoFullWithdrawal ==
    [][SwapOfPoolToken /\ RLt(last'.amount, Zero)
         /\ RGe(RNeg(last'.amount), Reserve(pool, last'.token)) =>
         /\ ~inverse_apply(RNeg(last'.amount),
                           Reserve(pool, OtherToken(pool, last'.token)),
                           Reserve(pool, last'.token)).ok
         /\ ~last'.ok
         /\ pool' = pool
         /\ RGt(pool'.quantity_token_a, Zero) /\ RGt(pool'.quantity_token_b, Zero)]_vars

\* a swap asked for a whole reserve or more and raised
C6_Witness ==
    /\ last.op = "swap" /\ ~last.ok /\ RLt(last.amount, Zero)
    /\ last.token \in {pool.token_a, pool.token_b}
    /\ RGe(RNeg(last.amount), Reserve(pool, last.token))

\* ------------------------------------------------------------------- C7
\* C7: swap with a token that is neither token_a nor token_b raises the
\* invalid-token error for every amount, zero and negative included, and
\* leaves the reserves and every token's supply and free_supply unchanged.
C7_InvalidToken ==
    [][last'.op = "swap" /\ steps' = steps + 1
         /\ last'.token \notin {pool.token_a, pool.token_b} =>
         /\ ~last'.ok
         /\ last'.err = "Invalid input token for this liquidity pool."
         /\ pool' = pool
         /\ tok' = tok]_vars

\* a swap of a zero or negative amount of a foreign token raised
C7_Witness ==
    /\ last.op = "swap" /\ ~last.ok
    /\ last.token \notin {pool.token_a, pool.token_b}
    /\ RLe(last.amount, Zero)

Quantities == {FromInt(-1), Zero, Rat(1, 2), One, FromInt(2), FromInt(3)}
FormulaReserves == {Rat(1, 2), One, FromInt(2), FromInt(3), FromInt(5)}

FInit ==
    /\ TokInit
    /\ pool = NewLiquidityPool(AS, RT, FromInt(2), FromInt(2), Zero)
    /\ vpool = NewVirtualLiquidityPool("Simple", AS, CT, FromInt(4), One, Zero, 2)
    /\ last \in {[op |-> "args", q |-> q, input_reserve |-> i, output_reserve |-> o]
                 : q \in Quantities, i \in FormulaReserves, o \in FormulaReserves}
    /\ steps = 0

\* inverse_apply(apply(q, r_in, r_out), r_in, r_out)
FApplyThenInverse ==
    /\ last.op = "args"
    /\ LET first == apply(last.q, last.input_reserve, last.output_reserve)
           second == IF first.ok
                     THEN inverse_apply(first.v, last.input_reserve, last.output_reserve)
                     ELSE first
       IN  last' = [op |-> "apply_then_inverse", q |-> last.q,
                    input_reserve |-> last.input_reserve,
                    output_reserve |-> last.output_reserve,
                    first |-> first, second |-> second]
    /\ steps' = steps + 1
    /\ UNCHANGED <<tok, pool, vpool>>

\* apply(inverse_apply(q, r_in, r_out), r_in, r_out)
FInverseThenApply ==
    /\ last.op = "args"
    /\ LET first == inverse_apply(last.q, last.input_reserve, last.output_reserve)
           second == IF first.ok
                     THEN apply(first.v, last.input_reserve, last.output_reserve)
                     ELSE first
       IN  last' = [op |-> "inverse_then_apply", q |-> last.q,
                    input_reserve |-> last.input_reserve,
                    output_reserve |-> last.output_reserve,
                    first |-> first, second |-> second]
    /\ steps' = steps + 1
    /\ UNCHANGED <<tok, pool, vpool>>

\* compute_reserve(r_in, r_out, q): q is the new reserve of the input token
FComputeReserve ==
    /\ last.op = "args"
    /\ last' = [op |-> "compute_reserve", q |-> last.q,
                input_reserve |-> last.input_reserve,
                output_reserve |-> last.output_reserve,
                first |-> compute_reserve(last.input_reserve, last.output_reserve, last.q),
                second |-> compute_reserve(last.input_reserve, last.output_reserve, last.q)]
    /\ steps' = steps + 1
    /\ UNCHANGED <<tok, pool, vpool>>

FNext == FApplyThenInverse \/ FInverseThenApply \/ FComputeReserve

SpecFormula == FInit /\ [][FNext]_vars

\* C5: for positive x, r_in, r_out, inverse_apply(apply(x, r_in, r_out), r_in,
\* r_out) = x, and apply(inverse_apply(q, r_in, r_out), r_in, r_out) = q for
\* every 0 < q < r_out.
C5_TrueInverses ==
    /\ (last.op = "apply_then_inverse" /\ RGt(last.q, Zero)) =>
          (last.first.ok /\ last.second.ok /\ last.second.v = last.q)
    /\ (last.op = "inverse_then_apply" /\ RGt(last.q, Zero)
          /\ RLt(last.q, last.output_reserve)) =>
          (last.first.ok /\ last.second.ok /\ last.second.v = last.q)

\* a round trip that starts with inverse_apply closed on unequal reserves
C5_Witness ==
    /\ last.op = "inverse_then_apply" /\ last.second.ok
    /\ last.second.v = last.q
    /\ last.input_reserve # last.output_reserve

\* ---------------------------------------------- a virtual pool under swaps
VLPInit ==
    /\ TokInit
    /\ pool = NewLiquidityPool(AS, RT, FromInt(2), FromInt(2), Zero)
    /\ vpool \in {NewVirtualLiquidityPool(policy, AS, CT, FromInt(4), price, fee, 2)
                  : policy \in {"Simple", "Improved"}, price \in CollateralPrices,
                    fee \in Fees}
    /\ last = NoCall
    /\ steps = 0

VLPSwap ==
    /\ steps < MaxSteps
    /\ Representable(vpool, tok) /\ Small(vpool.delta)
    /\ Representable(pool, tok)
    /\ \E token \in {AS, CT, XX}, amount \in Amounts :
          Ends("vswap", token, amount, VLP_swap(vpool, tok, token, amount),
               vpool', tok', last')
    /\ steps' = steps + 1
    /\ UNCHANGED pool

VLPUpdateCollateralPrice ==
    /\ steps < MaxSteps
    /\ \E new_price \in CollateralPrices :
          /\ vpool' = update_collateral_price(vpool, new_price)
          /\ last' = [NoCall EXCEPT !.op = "update_collateral_price", !.amount = new_price]
    /\ steps' = steps + 1
    /\ UNCHANGED <<tok, pool>>

\* the numbers of the recovery state are numbers the model computes exactly with
SmallRecovery(p) ==
    /\ Small(p.delta)
    /\ \A i \in 1..Len(p.restore_values) : Small(p.restore_values[i])

\* a call without arguments ended as r
EndsPool(op, r, p_next, last_next) ==
    /\ p_next = r.p
    /\ last_next = [NoCall EXCEPT !.op = op, !.ok = r.ok, !.err = r.err]

VLPReplenish ==
    /\ steps < MaxSteps
    /\ Representable(vpool, tok) /\ SmallRecovery(vpool)
    /\ EndsPool("perform_pool_replenishing", perform_pool_replenishing(vpool), vpool', last')
    /\ steps' = steps + 1
    /\ UNCHANGED <<tok, pool>>

VLPUpdateStablecoinPrice ==
    /\ steps < MaxSteps
    /\ vpool.policy = "Improved"
    /\ \E stablecoin_price \in StablecoinPrices :
          /\ vpool' = update_stablecoin_price(vpool, stablecoin_price)
          /\ last' = [NoCall EXCEPT !.op = "update_stablecoin_price",
                                    !.amount = stablecoin_price]
    /\ steps' = steps + 1
    /\ UNCHANGED <<tok, pool>>

VLPNext ==
    \/ VLPSwap
    \/ VLPUpdateCollateralPrice
    \/ VLPReplenish
    \/ VLPUpdateStablecoinPrice

SpecVLP == VLPInit /\ [][VLPNext]_vars

\* the step is a VirtualLiquidityPool.swap call that returned
VSwapReturned == last'.op = "vswap" /\ steps' = steps + 1 /\ last'.ok

\* ------------------------------------------------------------------- C9
\* C9: VirtualLiquidityPool.swap(token, 0) with a token of the pool returns
\* zero output without raising, and leaves delta, the recovery state and
\* every token's supply and free_supply unchanged.
C9_VirtualZeroSwapIsNoOp ==
    [][last'.op = "vswap" /\ steps' = steps + 1
         /\ last'.token \in {vpool.token_a, vpool.token_b} /\ last'.amount = Zero =>
         /\ last'.ok
         /\ last'.other_amount = Zero
         /\ vpool'.delta = vpool.delta
         /\ vpool'.restore_values = vpool.restore_values
         /\ tok' = tok]_vars

\* ------------------------------------------------------------------ C10
\* C10: a swap of the virtual pool that returns adds amount to delta when the
\* stablecoin (token_a) is the input and subtracts the stablecoin output from
\* delta when the collateral (token_b) is the input; afterwards
\* quantity_token_a = stablecoin_base_quantity + delta.
C10_DeltaFollowsStablecoin ==
    [][VSwapReturned =>
         /\ (last'.token = vpool.token_a =>
                vpool'.delta = RAdd(vpool.delta, last'.amount))
         /\ (last'.token = vpool.token_b =>
                /\ last'.other_token = vpool.token_a
                /\ vpool'.delta = RSub(vpool.delta, last'.other_amount))
         /\ vpool'.quantity_token_a =
                RAdd(vpool'.stablecoin_base_quantity, vpool'.delta)]_vars

\* collateral came in and stablecoin went out of a pool whose delta was not 0
C10_Witness ==
    /\ last.op = "vswap" /\ last.ok /\ last.token = vpool.token_b
    /\ steps >= 2
    /\ vpool.delta # RNeg(last.other_amount)

\* ------------------------------------------------------------------ C11
\* the step is a perform_pool_replenishing call that returned
Replenished == last'.op = "perform_pool_replenishing" /\ steps' = steps + 1 /\ last'.ok

\* C11: perform_pool_replenishing applies restore_delta first and
\* update_token_quantities second: when it returns, delta is the restored
\* delta, quantity_token_a = stablecoin_base_quantity + delta, and the product
\* of the two reserves is the product of the reserves stored before the call.
C11_ReplenishingKeepsProduct ==
    [][Replenished =>
         /\ restore_delta(vpool).ok
         /\ vpool'.delta = restore_delta(vpool).p.delta
         /\ vpool'.restore_values = restore_delta(vpool).p.restore_values
         /\ vpool'.quantity_token_a = RAdd(vpool'.stablecoin_base_quantity, vpool'.delta)
         /\ Product(vpool') = Product(vpool)]_vars

\* a replenishing returned on a pool whose delta a swap had moved, and whose
\* collateral reserve is no longer the base quantity at the collateral price
C11_Witness ==
    /\ last.op = "perform_pool_replenishing" /\ last.ok
    /\ vpool.delta # Zero
    /\ vpool.quantity_token_b # RDiv(vpool.stablecoin_base_quantity, vpool.collateral_price)

\* ------------------------------- a virtual pool under its recovery methods
RecoveryPeriods == {1, 2, 3}
DeltaVariations == {FromInt(-3), FromInt(-1), FromInt(2), Rat(5, 2)}
NewLengths ==
    {IntArg(k) : k \in -1..4} \cup {FloatArg(Rat(1, 2)), FloatArg(Rat(3, 2)), FloatArg(FromInt(2))}

\* The record of a call on the recovery state: d0 is the delta that the last
\* call other than restore_delta left, n the number of restore_delta calls
\* made since, new_length the argument of shrink_restore_values.
RecoveryCall(op, r, d0, n, new_length) ==
    [op |-> op, ok |-> r.ok, err |-> r.err, d0 |-> d0, n |-> n, new_length |-> new_length]

RecInit ==
    /\ TokInit
    /\ pool = NewLiquidityPool(AS, RT, FromInt(2), FromInt(2), Zero)
    /\ vpool \in {NewVirtualLiquidityPool(policy, AS, CT, FromInt(4), One, Zero, T)
                  : policy \in {"Simple", "Improved"}, T \in RecoveryPeriods}
    /\ last = RecoveryCall("none", [ok |-> TRUE, err |-> ""], Zero, 0, IntArg(0))
    /\ steps = 0

RecUpdateDelta ==
    /\ steps < MaxRecoverySteps
    /\ SmallRecovery(vpool)
    /\ \E delta_variation \in DeltaVariations :
          /\ vpool' = update_delta(vpool, delta_variation)
          /\ last' = RecoveryCall("update_delta", [ok |-> TRUE, err |-> ""],
                                  vpool'.delta, 0, IntArg(0))
    /\ steps' = steps + 1
    /\ UNCHANGED <<tok, pool>>

RecRestoreDelta ==
    /\ steps < MaxRecoverySteps
    /\ SmallRecovery(vpool)
    /\ vpool' = restore_delta(vpool).p
    /\ last' = RecoveryCall("restore_delta", restore_delta(vpool), last.d0, last.n + 1,
                            IntArg(0))
    /\ steps' = steps + 1
    /\ UNCHANGED <<tok, pool>>

RecShrinkRestoreValues ==
    /\ steps < MaxRecoverySteps
    /\ SmallRecovery(vpool)
    /\ vpool.policy = "Improved"
    /\ \E new_length \in NewLengths :
          /\ vpool' = shrink_restore_values(vpool, new_length).p
          /\ last' = RecoveryCall("shrink_restore_values",
                                  shrink_restore_values(vpool, new_length),
                                  vpool'.delta, 0, new_length)
    /\ steps' = steps + 1
    /\ UNCHANGED <<tok, pool>>

RecResetReplenishingSystem ==
    /\ steps < MaxRecoverySteps
    /\ vpool' = reset_replenishing_system(vpool)
    /\ last' = RecoveryCall("reset_replenishing_system", [ok |-> TRUE, err |-> ""],
                            vpool'.delta, 0, IntArg(0))
    /\ steps' = steps + 1
    /\ UNCHANGED <<tok, pool>>

RecNext ==
    \/ RecUpdateDelta
    \/ RecRestoreDelta
    \/ RecShrinkRestoreValues
    \/ RecResetReplenishingSystem

SpecRecovery == RecInit /\ [][RecNext]_vars

\* ------------------------------------------------------------------ C12
RECURSIVE Pow(_, _)
\* r to the power n
Pow(r, n) == IF n = 0 THEN One ELSE RMul(r, Pow(r, n - 1))

\* C12: SimpleVirtualLiquidityPool.restore_delta applied n times in a row to
\* a pool with delta d0 and recovery period T >= 1 leaves
\* delta = d0 * (1 - 1/T)^n, for every n >= 0 and every signed d0.
C12_ExponentialDecay ==
    vpool.policy = "Simple" =>
        vpool.delta =
            RMul(last.d0,
                 Pow(RSub(One, RDiv(One, FromInt(vpool.pool_recovery_period))), last.n))

\* a negative delta restored at least twice with recovery period 3
C12_Witness ==
    /\ vpool.policy = "Simple" /\ vpool.pool_recovery_period = 3
    /\ last.op = "restore_delta" /\ last.n >= 2
    /\ RLt(last.d0, Zero)
    /\ vpool.delta = RMul(last.d0, Rat(4, 9))

\* ------------------------------------------------------------------ C13
\* C13: shrink_restore_values(k) with an integer k >= 1 leaves
\* sum(restore_values) unchanged and restore_values of length exactly k,
\* whether k is smaller than, equal to or larger than the current length; with
\* k < 1 or a k that is not an int it fails with the validation error and
\* leaves restore_values unchanged.
C13_ShrinkConservesSum ==
    [][last'.op = "shrink_restore_values" /\ steps' = steps + 1 =>
         IF last'.new_length.int /\ RGe(last'.new_length.v, One)
         THEN /\ last'.ok
              /\ sum(vpool'.restore_values) = sum(vpool.restore_values)
              /\ Len(vpool'.restore_values) = last'.new_length.v.n
         ELSE /\ ~last'.ok
              /\ last'.err = "new_length must be an integer greater than or equal to 1"
              /\ vpool'.restore_values = vpool.restore_values]_vars

\* a window of three scheduled corrections, not all zero, shrunk to two
C13_Witness ==
    /\ last.op = "shrink_restore_values" /\ last.ok /\ steps = 2
    /\ vpool.pool_recovery_period = 3
    /\ Len(vpool.restore_values) = 2
    /\ sum(vpool.restore_values) # Zero

\* ------------------------------------- three pools under their optimizer
\* In this specification the variable pool is the list liquidity_pools of the
\* optimizer and vpool its virtual_liquidity_pool.
PoolQuantities == {4, 24}
StablecoinInitPrices == {One, Rat(6, 5), Rat(4, 5)}
OptFees == {Zero, Rat(1, 10)}
TradeAmounts == {FromInt(1), FromInt(2), FromInt(4)}
ProbeQuantities == {FromInt(-1), Zero, FromInt(1), FromInt(2)}
\* what minimize_scalar may answer: convergence or not, and an x within
\* the bounds (1, max_arbitrage_input)
OptimizerResults == {[success |-> c, x |-> x] : c \in BOOLEAN, x \in {FromInt(1), FromInt(2)}}

\* the pools_initialization of the optimizer's configuration: both pools hold
\* quantity reference tokens and price their token_a at the token's price
pools_initialization(tk, quantity, fee) ==
    [i \in {0, 1} |->
        IF i = 0
        THEN NewLiquidityPool(AS, RT, RDiv(FromInt(quantity), tk[AS].price), FromInt(quantity), fee)
        ELSE NewLiquidityPool(CT, RT, RDiv(FromInt(quantity), tk[CT].price), FromInt(quantity), fee)]

OptInit ==
    /\ tok \in {[t \in Tokens |->
                   IF t = AS THEN NewToken(FromInt(32), FromInt(4), ps)
                   ELSE IF t = CT THEN NewToken(FromInt(32), FromInt(4), pc)
                   ELSE NewToken(FromInt(32), FromInt(4), One)]
                : ps \in StablecoinInitPrices, pc \in CollateralPrices}
    /\ \E quantity \in PoolQuantities, fee \in OptFees, policy \in {"Simple", "Improved"} :
          /\ pool = pools_initialization(tok, quantity, fee)
          /\ vpool = NewVirtualLiquidityPool(policy, AS, CT, FromInt(quantity),
                                             tok[CT].price, fee, 2)
    /\ last = NoCall
    /\ steps = 0

\* the numbers of the three pools and the tokens are held exactly
OptRepresentable ==
    /\ Representable(pool[0], tok) /\ Representable(pool[1], tok)
    /\ Representable(vpool, tok) /\ SmallRecovery(vpool)

\* a trade of the market on liquidity_pools[0]
OptTrade ==
    /\ steps < MaxSteps
    /\ OptRepresentable
    /\ \E token \in {AS, RT}, amount \in TradeAmounts :
          /\ pool' = [pool EXCEPT ![0] = swap(pool[0], tok, token, amount).p]
          /\ tok' = swap(pool[0], tok, token, amount).tk
          /\ last' = Call("swap", token, amount, swap(pool[0], tok, token, amount))
    /\ steps' = steps + 1
    /\ UNCHANGED vpool

OptDetectArbitrage ==
    /\ steps < MaxSteps
    /\ OptRepresentable
    /\ last' = [op |-> "detect_arbitrage", ok |-> detect_arbitrage(pool, vpool).ok,
                type |-> detect_arbitrage(pool, vpool).type,
                available |-> detect_arbitrage(pool, vpool).available]
    /\ steps' = steps + 1
    /\ UNCHANGED <<tok, pool, vpool>>

OptGetArbitrageProfit ==
    /\ steps < MaxSteps
    /\ OptRepresentable
    /\ \E arbitrage_type \in {"Type 1", "Type 2"}, rt_input_quantity \in ProbeQuantities :
          last' = [op |-> "get_arbitrage_profit", type |-> arbitrage_type,
                   rt_input_quantity |-> rt_input_quantity,
                   ok |-> get_arbitrage_profit(pool, vpool, arbitrage_type, rt_input_quantity).ok,
                   v |-> get_arbitrage_profit(pool, vpool, arbitrage_type, rt_input_quantity).v]
    /\ steps' = steps + 1
    /\ UNCHANGED <<tok, pool, vpool>>

\* leverage_arbitrage_opportunity ended as s, the solver having answered result
EndsLeverage(s, d, result) ==
    /\ pool' = s.lps
    /\ vpool' = s.v
    /\ tok' = s.tk
    /\ last' = [op |-> "leverage_arbitrage_opportunity", ok |-> s.ok, err |-> s.err,
                type |-> d.type, available |-> d.available,
                result |-> result, swaps |-> s.swaps]

OptLeverage ==
    /\ steps < MaxSteps
    /\ OptRepresentable
    /\ \E result \in OptimizerResults :
          EndsLeverage(leverage_arbitrage_opportunity(pool, vpool, tok, result),
                       detect_arbitrage(pool, vpool), result)
    /\ steps' = steps + 1

OptNext ==
    \/ OptTrade
    \/ OptDetectArbitrage
    \/ OptGetArbitrageProfit
    \/ OptLeverage

SpecOpt == OptInit /\ [][OptNext]_vars

\* the price of a pool's token_a in its token_b
PoolPrice(p) == RDiv(p.quantity_token_b, p.quantity_token_a)

\* no pool takes a fee
ZeroFees == pool[0].fee = Zero /\ pool[1].fee = Zero /\ vpool.fee = Zero

\* the virtual pool is at delta 0 with the collateral price of liquidity_pools[1]
VirtualAtPeg ==
    /\ vpool.delta = Zero
    /\ vpool.quantity_token_a = vpool.stablecoin_base_quantity
    /\ vpool.quantity_token_b = RDiv(vpool.stablecoin_base_quantity, PoolPrice(pool[1]))

\* the pools are balanced at the peg
Balanced == ZeroFees /\ VirtualAtPeg /\ PoolPrice(pool[0]) = One

\* liquidity_pools[0] was built balanced with as many reference tokens as
\* liquidity_pools[1] and has only been traded on since (no fee: its product
\* is the one it was built with)
BuiltBalanced ==
    /\ ZeroFees /\ VirtualAtPeg
    /\ Product(pool[0]) = RMul(pool[1].quantity_token_b, pool[1].quantity_token_b)

\* a trade on liquidity_pools[0] has just pushed the stablecoin above the peg
TradedAbovePeg ==
    last.op = "swap" /\ last.ok /\ BuiltBalanced /\ RGt(PoolPrice(pool[0]), One)

\* a trade on liquidity_pools[0] has just pushed the stablecoin below the peg
TradedBelowPeg ==
    last.op = "swap" /\ last.ok /\ BuiltBalanced /\ RLt(PoolPrice(pool[0]), One)

\* the step is a detect_arbitrage call
Detects == last'.op = "detect_arbitrage" /\ steps' = steps + 1

ProbesBalanced ==
    /\ last'.op = "get_arbitrage_profit" /\ steps' = steps + 1
    /\ last'.rt_input_quantity = One
    /\ Balanced

\* C15 as claimed: get_arbitrage_profit(type, 1) returns 0 for both types on
\* a balanced three-pool configuration with zero fees.
C15_NoProfitAtBalance == [][ProbesBalanced => last'.ok /\ last'.v = Zero]_vars

\* C15 amended: on a balanced zero-fee configuration get_arbitrage_profit(type,
\* 1) returns a negative number for both types, the slippage of the three
\* swaps, so that no arbitrage is detected.
C15_LossAtBalance ==
    [][ProbesBalanced =>
         /\ last'.ok /\ RLt(last'.v, Zero)
         /\ ~detect_arbitrage(pool, vpool).available]_vars

\* the unit probe of Type 2 on balanced pools whose collateral is priced at 2
C15_Witness ==
    /\ last.op = "get_arbitrage_profit" /\ last.type = "Type 2"
    /\ last.rt_input_quantity = One /\ last.ok /\ RLt(last.v, Zero)
    /\ Balanced /\ PoolPrice(pool[1]) = FromInt(2)

\* ------------------------------------------------------------------ C16
\* the step is a leverage_arbitrage_opportunity call
Leverages == last'.op = "leverage_arbitrage_opportunity" /\ steps' = steps + 1

\* the three swaps of an arbitrage type: the pool, the token that goes in and
\* the token that comes out
Chain(arbitrage_type) ==
    IF arbitrage_type = "Type 1"
    THEN <<[pool |-> "liquidity_pools[1]", token |-> RT, other_token |-> CT],
           [pool |-> "virtual_liquidity_pool", token |-> CT, other_token |-> AS],
           [pool |-> "liquidity_pools[0]", token |-> AS, other_token |-> RT]>>
    ELSE <<[pool |-> "liquidity_pools[0]", token |-> RT, other_token |-> AS],
           [pool |-> "virtual_liquidity_pool", token |-> AS, other_token |-> CT],
           [pool |-> "liquidity_pools[1]", token |-> CT, other_token |-> RT]>>

\* swaps follows the chain of arbitrage_type as far as it goes: each swap on
\* the chain's pool with the chain's tokens, each swap but the last returned,
\* and each later swap fed the whole output of the one before it
FollowsChain(swaps, arbitrage_type) ==
    /\ Len(swaps) <= 3
    /\ \A i \in 1..Len(swaps) :
          /\ swaps[i].pool = Chain(arbitrage_type)[i].pool
          /\ swaps[i].token = Chain(arbitrage_type)[i].token
          /\ swaps[i].ok => swaps[i].other_token = Chain(arbitrage_type)[i].other_token
          /\ i < Len(swaps) => swaps[i].ok
          /\ i > 1 => swaps[i].amount = swaps[i - 1].other_amount

\* C16: leverage_arbitrage_opportunity changes no pool, delta or token state
\* when detect_arbitrage reports no opportunity; on Type 1 it makes the swaps
\* liquidity_pools[1] (reference in, collateral out), virtual pool (collateral
\* in, stablecoin out), liquidity_pools[0] (stablecoin in, reference out), on
\* Type 2 liquidity_pools[0] (reference in), virtual pool (stablecoin in),
\* liquidity_pools[1] (collateral in); each later swap takes the whole output
\* of the one before, the first takes no more than max_arbitrage_input, and a
\* call that returns has made exactly the three.
C16_ThreeSwapsInOrder ==
    [][Leverages =>
         /\ last'.type = detect_arbitrage(pool, vpool).type
         /\ (~last'.available =>
                /\ last'.ok /\ last'.swaps = << >>
                /\ pool' = pool /\ vpool' = vpool /\ tok' = tok)
         /\ (last'.available =>
                /\ last'.type \in {"Type 1", "Type 2"}
                /\ FollowsChain(last'.swaps, last'.type)
                /\ (last'.ok => Len(last'.swaps) = 3 /\ last'.swaps[3].ok)
                /\ (last'.swaps # << >> =>
                       /\ RLe(last'.swaps[1].amount, FromInt(max_arbitrage_input))
                       /\ last'.swaps[1].amount = last'.result.x)
                /\ (last'.ok /\ last'.type = "Type 1" =>
                       /\ pool'[1].quantity_token_b =
                              RAdd(pool[1].quantity_token_b, last'.swaps[1].amount)
                       /\ vpool'.delta = RSub(vpool.delta, last'.swaps[2].other_amount)
                       /\ pool'[0].quantity_token_a =
                              RAdd(pool[0].quantity_token_a, last'.swaps[3].amount))
                /\ (last'.ok /\ last'.type = "Type 2" =>
                       /\ pool'[0].quantity_token_b =
                              RAdd(pool[0].quantity_token_b, last'.swaps[1].amount)
                       /\ vpool'.delta = RAdd(vpool.delta, last'.swaps[2].amount)
                       /\ pool'[1].quantity_token_a =
                              RAdd(pool[1].quantity_token_a, last'.swaps[3].amount)))]_vars

\* a Type 2 arbitrage that returned after its three swaps
C16_Witness ==
    /\ last.op = "leverage_arbitrage_opportunity" /\ last.ok
    /\ last.type = "Type 2" /\ Len(last.swaps) = 3
    /\ last.swaps[3].amount = last.swaps[2].other_amount
    /\ last.swaps[2].amount # last.swaps[1].amount

\* ------------------------------------------------------------------ C17
\* liquidity_pools[0] is as pools_initialization builds it at a stablecoin
\* price of 1.2 or 0.8, and no pool takes a fee
BuiltOffPeg ==
    /\ ZeroFees /\ VirtualAtPeg
    /\ tok[AS].price \in {Rat(6, 5), Rat(4, 5)}
    /\ PoolPrice(pool[0]) = tok[AS].price
    /\ steps = 0

\* C17: after leverage_arbitrage_opportunity ran on a zero-fee configuration
\* whose liquidity_pools[0] was built at a stablecoin price of 1.2 (Type 1) or
\* 0.8 (Type 2), the stablecoin token's price equals the peg 1.0.
C17_PriceBackAtPeg ==
    [][Leverages /\ BuiltOffPeg /\ last'.ok /\ last'.available =>
         tok'[AS].price = One]_vars

\* ------------------------------------------------------------------ C18
\* C18: when the bounded optimizer reports non-convergence,
\* compute_max_arbitrage_profit fails with the optimization error; inside
\* leverage_arbitrage_opportunity no swap has then been made, and the three
\* pools' reserves, delta and every token's supply and free_supply are
\* unchanged.
C18_SolverFailureChangesNothing ==
    [][Leverages /\ last'.available /\ ~last'.result.success =>
         /\ ~compute_max_arbitrage_profit(pool, vpool, last'.type, last'.result).ok
         /\ ~last'.ok /\ last'.err = "Optimization failed."
         /\ last'.swaps = << >>
         /\ pool' = pool /\ vpool' = vpool /\ tok' = tok]_vars

\* the solver did not converge on a detected Type 2 opportunity
C18_Witness ==
    /\ last.op = "leverage_arbitrage_opportunity" /\ last.available
    /\ last.type = "Type 2" /\ ~last.result.success
    /\ ~last.ok /\ last.err = "Optimization failed."

\* ------------------------------- tokens under their setters and the swaps
TokenValues ==
    {FromInt(-1), Zero, Rat(1, 200), FromInt(1), Rat(2001, 2000), FromInt(7),
     FromInt(8), Rat(16001, 2000), FromInt(20)}
SwapAmounts == {FromInt(-1), Rat(199, 200), FromInt(1), Rat(201, 200), FromInt(2)}

\* the supplies of the tokens are numbers the model computes exactly with
TokensExact == \A t \in Tokens : Small(tok[t].supply) /\ Small(tok[t].free_supply)

\* a call on one token ended as r
EndsToken(op, t, value, r) ==
    /\ tok' = [tok EXCEPT ![t] = r.t]
    /\ last' = [NoCall EXCEPT !.op = op, !.token = t, !.amount = value,
                              !.ok = r.ok, !.err = r.err]

TokInit2 ==
    /\ TokInit
    /\ pool \in {NewLiquidityPool(AS, RT, a, FromInt(2), Zero) : a \in {FromInt(2), FromInt(3)}}
    /\ vpool = NewVirtualLiquidityPool("Simple", AS, CT, FromInt(4), One, Zero, 2)
    /\ last = NoCall
    /\ steps = 0

TokSetSupply ==
    /\ steps < MaxSteps
    /\ TokensExact
    /\ \E value \in TokenValues : EndsToken("supply", AS, value, set_supply(tok[AS], value))
    /\ steps' = steps + 1
    /\ UNCHANGED <<pool, vpool>>

TokSetFreeSupply ==
    /\ steps < MaxSteps
    /\ TokensExact
    /\ \E value \in TokenValues :
          EndsToken("free_supply", AS, value, set_free_supply(tok[AS], value))
    /\ steps' = steps + 1
    /\ UNCHANGED <<pool, vpool>>

TokMint ==
    /\ steps < MaxSteps
    /\ TokensExact
    /\ \E amount \in TokenValues : EndsToken("mint", AS, amount, mint(tok[AS], amount))
    /\ steps' = steps + 1
    /\ UNCHANGED <<pool, vpool>>

TokBurn ==
    /\ steps < MaxSteps
    /\ TokensExact
    /\ \E amount \in TokenValues : EndsToken("burn", AS, amount, burn(tok[AS], amount))
    /\ steps' = steps + 1
    /\ UNCHANGED <<pool, vpool>>

TokSwap ==
    /\ steps < MaxSteps
    /\ Small(pool.quantity_token_a) /\ Small(pool.quantity_token_b) /\ TokensExact
    /\ \E token \in {AS, RT}, amount \in SwapAmounts :
          Ends("swap", token, amount, swap(pool, tok, token, amount), pool', tok', last')
    /\ steps' = steps + 1
    /\ UNCHANGED vpool

TokVirtualSwap ==
    /\ steps < MaxSteps
    /\ Small(vpool.quantity_token_a) /\ Small(vpool.quantity_token_b)
    /\ Small(vpool.delta) /\ TokensExact
    /\ \E token \in {AS, CT}, amount \in SwapAmounts :
          Ends("vswap", token, amount, VLP_swap(vpool, tok, token, amount),
               vpool', tok', last')
    /\ steps' = steps + 1
    /\ UNCHANGED pool

TokNext ==
    \/ TokSetSupply
    \/ TokSetFreeSupply
    \/ TokMint
    \/ TokBurn
    \/ TokSwap
    \/ TokVirtualSwap

SpecToken == TokInit2 /\ [][TokNext]_vars

\* ------------------------------------------------------------------ C19
\* 0 <= free_supply <= supply
WithinSupply(t) == RGe(t.free_supply, Zero) /\ RLe(t.free_supply, t.supply)

\* what an operation on a token asks for, before any validation: the supply
\* and the free supply that its arithmetic arrives at
Asked(op, t, value) ==
    IF op = "supply"
    THEN [supply |-> value, free_supply |-> RAdd(t.free_supply, RSub(value, t.supply))]
    ELSE IF op = "free_supply"
    THEN [supply |-> t.supply, free_supply |-> value]
    ELSE IF op = "mint"
    THEN [supply |-> RAdd(t.supply, value), free_supply |-> RAdd(t.free_supply, value)]
    ELSE [supply |-> RSub(t.supply, value), free_supply |-> RSub(t.free_supply, value)]

\* the step is a supply or free_supply assignment, a mint or a burn
TokenCall ==
    last'.op \in {"supply", "free_supply", "mint", "burn"} /\ steps' = steps + 1

\* C19: every token satisfies 0 <= free_supply <= supply in every state
\* reached by supply assignments, free_supply assignments, mint, burn and pool
\* swaps, and an operation that would break this (a burn of more than the free
\* supply, a supply below supply - free_supply, a free_supply above the
\* supply) fails and leaves supply and free_supply unchanged.
C19_FreeSupplyWithinSupply ==
    [][/\ \A t \in Tokens : WithinSupply(tok'[t])
       /\ (TokenCall /\ ~WithinSupply(Asked(last'.op, tok[last'.token], last'.amount)) =>
              /\ ~last'.ok
              /\ tok'[last'.token] = tok[last'.token])]_vars

\* ------------------------------------------------------------------ C20
\* C20: a LiquidityPool.swap that returns creates and destroys no token: for
\* each of the pool's two tokens the pool's reserve plus the token's free
\* supply is the same before and after, whichever token goes in and whatever
\* the sign of the amount, and neither token's supply changes.
C20_SwapConservesTokens ==
    [][SwapReturned =>
         \A t \in {pool.token_a, pool.token_b} :
            /\ RAdd(Reserve(pool', t), tok'[t].free_supply) =
                   RAdd(Reserve(pool, t), tok[t].free_supply)
            /\ tok'[t].supply = tok[t].supply]_vars

\* ------------------------------------------------------------------ C21
\* the step is a restore_delta call
RestoreDeltaCall == last'.op = "restore_delta" /\ steps' = steps + 1

\* C21: under both recovery policies, in every state reached through
\* update_delta and restore_delta calls, one restore_delta call moves delta
\* toward zero or leaves it: |delta| does not grow and delta does not change
\* its sign.
C21_RestoreMovesTowardZero ==
    [][RestoreDeltaCall =>
         /\ RLe(RAbs(vpool'.delta), RAbs(vpool.delta))
         /\ ~(RGt(vpool.delta, Zero) /\ RLt(vpool'.delta, Zero))
         /\ ~(RLt(vpool.delta, Zero) /\ RGt(vpool'.delta, Zero))]_vars

\* ------------- an Improved virtual pool under its prices and its window
WindowPeriods == {1, 2, 3, 10}
\* prices above, on and between the thresholds, and below all of them
WindowPrices ==
    {One, Rat(99, 100), Rat(987, 1000), Rat(981, 1000), Rat(97, 100), Rat(24, 25),
     Rat(951, 1000), Rat(95, 100), Rat(91, 100)}
WindowAmounts == {FromInt(-1), FromInt(1), FromInt(2)}

\* The record of a call on the window: length is the answer of
\* compute_restore_values_new_length, token and amount the arguments of a swap.
WindowCall(op, r, length, token, amount) ==
    [op |-> op, ok |-> r.ok, err |-> r.err, length |-> length, token |-> token,
     amount |-> amount]

\* a call that returned
Done == [ok |-> TRUE, err |-> ""]

WinInit ==
    /\ TokInit
    /\ pool = NewLiquidityPool(AS, RT, FromInt(2), FromInt(2), Zero)
    /\ vpool \in {NewVirtualLiquidityPool("Improved", AS, CT, FromInt(4), One, Zero, T)
                  : T \in WindowPeriods}
    /\ last = WindowCall("none", Done, 0, "", Zero)
    /\ steps = 0

WinUpdateStablecoinPrice ==
    /\ steps < MaxSteps
    /\ \E stablecoin_price \in WindowPrices :
          /\ vpool' = update_stablecoin_price(vpool, stablecoin_price)
          /\ last' = WindowCall("update_stablecoin_price", Done, 0, "", stablecoin_price)
    /\ steps' = steps + 1
    /\ UNCHANGED <<tok, pool>>

WinComputeRestoreValuesNewLength ==
    /\ steps < MaxSteps
    /\ last' = WindowCall("compute_restore_values_new_length", Done,
                          compute_restore_values_new_length(vpool), "", Zero)
    /\ steps' = steps + 1
    /\ UNCHANGED <<tok, pool, vpool>>

WinUpdateDelta ==
    /\ steps < MaxSteps
    /\ SmallRecovery(vpool)
    /\ \E delta_variation \in DeltaVariations :
          /\ vpool' = update_delta(vpool, delta_variation)
          /\ last' = WindowCall("update_delta", Done, 0, "", delta_variation)
    /\ steps' = steps + 1
    /\ UNCHANGED <<tok, pool>>

WinRestoreDelta ==
    /\ steps < MaxSteps
    /\ SmallRecovery(vpool)
    /\ vpool' = restore_delta(vpool).p
    /\ last' = WindowCall("restore_delta", restore_delta(vpool),
                          compute_restore_values_new_length(vpool), "", Zero)
    /\ steps' = steps + 1
    /\ UNCHANGED <<tok, pool>>

WinPerformPoolReplenishing ==
    /\ steps < MaxSteps
    /\ Representable(vpool, tok) /\ SmallRecovery(vpool)
    /\ vpool' = perform_pool_replenishing(vpool).p
    /\ last' = WindowCall("perform_pool_replenishing", perform_pool_replenishing(vpool),
                          compute_restore_values_new_length(vpool), "", Zero)
    /\ steps' = steps + 1
    /\ UNCHANGED <<tok, pool>>

WinSwap ==
    /\ steps < MaxSteps
    /\ Representable(vpool, tok) /\ SmallRecovery(vpool)
    /\ \E token \in {AS, CT}, amount \in WindowAmounts :
          /\ vpool' = VLP_swap(vpool, tok, token, amount).p
          /\ tok' = VLP_swap(vpool, tok, token, amount).tk
          /\ last' = WindowCall("vswap", VLP_swap(vpool, tok, token, amount), 0, token, amount)
    /\ steps' = steps + 1
    /\ UNCHANGED pool

WinResetReplenishingSystem ==
    /\ steps < MaxSteps
    /\ vpool' = reset_replenishing_system(vpool)
    /\ last' = WindowCall("reset_replenishing_system", Done, 0, "", Zero)
    /\ steps' = steps + 1
    /\ UNCHANGED <<tok, pool>>

WinNext ==
    \/ WinUpdateStablecoinPrice
    \/ WinComputeRestoreValuesNewLength
    \/ WinUpdateDelta
    \/ WinRestoreDelta
    \/ WinPerformPoolReplenishing
    \/ WinSwap
    \/ WinResetReplenishingSystem

SpecWindow == WinInit /\ [][WinNext]_vars


\* ------------------------------------------------------------------ C22
\* Python's round(r): the nearest integer, a tie going to the even one
round(r) ==
    LET q == r.n \div r.d
        twice == 2 * (r.n % r.d)
    IN  IF twice > r.d \/ (twice = r.d /\ q % 2 = 1) THEN q + 1 ELSE q

\* the first threshold, counted from the top, that the price of p exceeds
FirstPassed(p) == CHOOSE i \in PassedThresholds(p) : \A j \in PassedThresholds(p) : i <= j

\* the window length that the thresholds give for the price of p
ThresholdLength(p) ==
    IF PassedThresholds(p) = {} THEN 1
    ELSE round(RMul(FromInt(p.pool_recovery_period),
                    RSub(One, RMul(FromInt(FirstPassed(p)), Rat(1, 10)))))

\* C22: compute_restore_values_new_length scans the thresholds 0.99, 0.985,
\* ..., 0.95 from the top; the first one that the stablecoin price strictly
\* exceeds, of index i, yields round(pool_recovery_period * (1 - i * 0.1)),
\* and a price at or below 0.95 yields 1; the result is an integer of
\* 1..pool_recovery_period, so that restore_delta never fails on the window
\* length.
C22_NewLengthWithinPeriod ==
    [][/\ (last'.op = "compute_restore_values_new_length" /\ steps' = steps + 1 =>
              /\ last'.length = ThresholdLength(vpool)
              /\ last'.length \in 1..vpool.pool_recovery_period)
       /\ (last'.op = "restore_delta" /\ steps' = steps + 1 => last'.ok)]_vars


\* ------------------------------------------------------------------ C23
\* the window of p once resized to length k
Resized(p, k) == shrink_restore_values(p, IntArg(k)).p.restore_values

\* C23: a restore_delta of the Improved pool that returns has resized the
\* window to the target length, subtracted the first slot of the resized
\* window from delta, dropped that slot, shifted the others left and appended
\* a zero: the window has the target length, and delta and
\* sum(restore_values) are both smaller by exactly the consumed slot; at a
\* price at or below the lowest threshold the window collapses to one slot
\* and the whole scheduled correction is consumed in that call.
C23_RestoreConsumesFirstSlot ==
    [][RestoreDeltaCall /\ last'.ok =>
         /\ Len(vpool'.restore_values) = last'.length
         /\ vpool'.restore_values = Tail(Resized(vpool, last'.length)) \o <<Zero>>
         /\ vpool'.delta = RSub(vpool.delta, Resized(vpool, last'.length)[1])
         /\ sum(vpool'.restore_values) =
                RSub(sum(vpool.restore_values), Resized(vpool, last'.length)[1])
         /\ (RLe(vpool.stablecoin_price, values[1]) =>
                /\ Len(vpool'.restore_values) = 1
                /\ vpool'.delta = RSub(vpool.delta, sum(vpool.restore_values))
                /\ sum(vpool'.restore_values) = Zero)]_vars

\* a window of three slots holding -1 each, resized to two slots at price
\* 0.981, of which the first was consumed
C23_Witness ==
    /\ last.op = "restore_delta" /\ last.ok /\ last.length = 2
    /\ vpool.pool_recovery_period = 3
    /\ vpool.delta = Rat(-3, 2)
    /\ vpool.restore_values = <<Rat(-3, 2), Zero>>


\* ------------------------------------------------------------------ C24
\* C24: compute_reserve(input_reserve, output_reserve, new_input_reserve), for
\* positive reserves and a positive new_input_reserve other than
\* input_reserve, returns the r with new_input_reserve * r = input_reserve *
\* output_reserve: r > output_reserve when new_input_reserve < input_reserve
\* and r < output_reserve when new_input_reserve > input_reserve.
C24_ComputeReserveKeepsProduct ==
    (last.op = "compute_reserve" /\ RGt(last.q, Zero) /\ last.q # last.input_reserve) =>
        /\ last.first.ok
        /\ RMul(last.q, last.first.v) = RMul(last.input_reserve, last.output_reserve)
        /\ (RLt(last.q, last.input_reserve) => RGt(last.first.v, last.output_reserve))
        /\ (RGt(last.q, last.input_reserve) => RLt(last.first.v, last.output_reserve))

\* an input reserve brought from 2 down to 1/2 against an output reserve of 3
C24_Witness ==
    /\ last.op = "compute_reserve"
    /\ last.q = Rat(1, 2) /\ last.input_reserve = FromInt(2)
    /\ last.output_reserve = FromInt(3)
    /\ last.first.ok /\ last.first.v = FromInt(12)


\* ------------------------------------------------------------------ C25
\* p with other reserves stored in it
Storing(p, a, b) == [p EXCEPT !.quantity_token_a = a, !.quantity_token_b = b]

\* C25: the reserves of a virtual pool are derived state: what a swap of the
\* virtual pool answers and leaves (output, reserves, delta, whether it
\* raises) is the same for every pair of reserves stored in the pool before
\* the call, the other fields and the arguments being equal.
C25_StoredReservesIgnored ==
    [][last'.op = "vswap" /\ steps' = steps + 1 =>
         \A a \in Reserves, b \in Reserves :
            /\ VLP_swap(Storing(vpool, a, b), tok, last'.token, last'.amount).p = vpool'
            /\ VLP_swap(Storing(vpool, a, b), tok, last'.token, last'.amount).tk = tok'
            /\ VLP_swap(Storing(vpool, a, b), tok, last'.token, last'.amount).ok = last'.ok
            /\ VLP_swap(Storing(vpool, a, b), tok, last'.token, last'.amount).other_amount =
                   last'.other_amount]_vars

\* stablecoin came into a pool that an earlier swap had left with a delta
\* other than 0 and with reserves other than the ones a swap rebuilds
C25_Witness ==
    /\ last.op = "vswap" /\ last.ok /\ last.token = vpool.token_a
    /\ RGt(last.amount, Zero)
    /\ vpool.delta # last.amount


\* ------------------------------------------------------------------ C26
\* the step is a get_arbitrage_profit call
Probes == last'.op = "get_arbitrage_profit" /\ steps' = steps + 1

\* the output of compute_swap_value of pool p for input_quantity
Hop(p, input_quantity, input_reserve, output_reserve) ==
    compute_swap_value(p, input_quantity, input_reserve, output_reserve).v

\* the reference tokens that come back from rt_input_quantity sent through
\* the three pools on the reserves they store
ThreeHops(arbitrage_type, rt_input_quantity) ==
    IF arbitrage_type = "Type 1"
    THEN Hop(pool[0],
             Hop(vpool,
                 Hop(pool[1], rt_input_quantity,
                     pool[1].quantity_token_b, pool[1].quantity_token_a),
                 vpool.quantity_token_b, vpool.quantity_token_a),
             pool[0].quantity_token_a, pool[0].quantity_token_b)
    ELSE Hop(pool[1],
             Hop(vpool,
                 Hop(pool[0], rt_input_quantity,
                     pool[0].quantity_token_b, pool[0].quantity_token_a),
                 vpool.quantity_token_a, vpool.quantity_token_b),
             pool[1].quantity_token_a, pool[1].quantity_token_b)

\* C26: get_arbitrage_profit(type, x) changes no reserve, no delta and no
\* token, for both types and every x; it returns 0 for every x <= 0, and for
\* x > 0 the output of the three chained compute_swap_value hops on the
\* stored reserves, minus x.
C26_ProfitIsPure ==
    [][Probes =>
         /\ pool' = pool /\ vpool' = vpool /\ tok' = tok
         /\ last'.ok
         /\ last'.v = IF RLe(last'.rt_input_quantity, Zero) THEN Zero
                      ELSE RSub(ThreeHops(last'.type, last'.rt_input_quantity),
                                last'.rt_input_quantity)]_vars

\* a Type 1 probe of two reference tokens, after a trade, through a virtual
\* pool whose two reserves differ
C26_Witness ==
    /\ last.op = "get_arbitrage_profit" /\ last.type = "Type 1" /\ steps >= 2
    /\ last.rt_input_quantity = FromInt(2)
    /\ vpool.quantity_token_a # vpool.quantity_token_b
    /\ last.ok /\ last.v # Zero


\* ------------------------------------------------------------------ C27
\* C27: in every state that an Improved pool reaches from its construction or
\* from reset_replenishing_system through swaps, update_delta calls,
\* stablecoin-price updates and restore_delta / perform_pool_replenishing
\* calls, the scheduled corrections add up to the outstanding delta:
\* sum(restore_values) = delta.
C27_WindowSumsToDelta ==
    vpool.policy = "Improved" => sum(vpool.restore_values) = vpool.delta

\* a window that a restore_delta at a lowered price resized to two slots and
\* an update_delta filled since
C27_Witness ==
    /\ vpool.policy = "Improved" /\ vpool.pool_recovery_period = 3
    /\ Len(vpool.restore_values) = 2
    /\ vpool.restore_values[2] # Zero
    /\ vpool.delta # Zero


\* ------------------------------------------------------------------ C28
\* the step is a swap of the pool or of the virtual pool that raised, called
\* with one of the pool's own tokens
SwapRaised ==
    /\ steps' = steps + 1 /\ ~last'.ok
    /\ \/ last'.op = "swap" /\ last'.token \in {pool.token_a, pool.token_b}
       \/ last'.op = "vswap" /\ last'.token \in {vpool.token_a, vpool.token_b}

\* C28: a swap that raises is atomic: when LiquidityPool.swap or
\* VirtualLiquidityPool.swap fails for a token of the pool, the pool's
\* quantity_token_a, quantity_token_b and delta and the supply and free_supply
\* of both tokens are what they were before the call.
C28_FailedSwapIsAtomic ==
    [][SwapRaised =>
         /\ pool'.quantity_token_a = pool.quantity_token_a
         /\ pool'.quantity_token_b = pool.quantity_token_b
         /\ vpool'.quantity_token_a = vpool.quantity_token_a
         /\ vpool'.quantity_token_b = vpool.quantity_token_b
         /\ vpool'.delta = vpool.delta
         /\ \A t \in Tokens : /\ tok'[t].supply = tok[t].supply
                              /\ tok'[t].free_supply = tok[t].free_supply]_vars


\* ------------- the optimizer beside the other users of the virtual pool
\* In this specification the market also trades on the virtual pool, the
\* simulation replenishes it and the collateral is repriced.
MktVirtualSwap ==
    /\ steps < MaxSteps
    /\ OptRepresentable
    /\ \E token \in {AS, CT}, amount \in TradeAmounts :
          /\ vpool' = VLP_swap(vpool, tok, token, amount).p
          /\ tok' = VLP_swap(vpool, tok, token, amount).tk
          /\ last' = Call("vswap", token, amount, VLP_swap(vpool, tok, token, amount))
    /\ steps' = steps + 1
    /\ UNCHANGED pool

MktPerformPoolReplenishing ==
    /\ steps < MaxSteps
    /\ OptRepresentable
    /\ EndsPool("perform_pool_replenishing", perform_pool_replenishing(vpool), vpool', last')
    /\ steps' = steps + 1
    /\ UNCHANGED <<tok, pool>>

MktUpdateCollateralPrice ==
    /\ steps < MaxSteps
    /\ \E new_price \in CollateralPrices :
          /\ vpool' = update_collateral_price(vpool, new_price)
          /\ last' = [NoCall EXCEPT !.op = "update_collateral_price", !.amount = new_price]
    /\ steps' = steps + 1
    /\ UNCHANGED <<tok, pool>>

MktNext ==
    \/ OptTrade
    \/ OptDetectArbitrage
    \/ OptGetArbitrageProfit
    \/ OptLeverage
    \/ MktVirtualSwap
    \/ MktPerformPoolReplenishing
    \/ MktUpdateCollateralPrice

SpecMarket == OptInit /\ [][MktNext]_vars

\* ------------------------------------------------------------------ C29
\* C29: the profit the optimizer predicts is the profit it realizes: for a
\* detected opportunity executed with trade size x, the reference tokens that
\* the third swap of leverage_arbitrage_opportunity returns, minus x, are
\* get_arbitrage_profit(type, x) evaluated on the state before the swaps, in
\* every reachable state.
C29_PredictedIsRealized ==
    [][Leverages /\ last'.ok /\ last'.available =>
         RSub(last'.swaps[3].other_amount, last'.swaps[1].amount) =
             get_arbitrage_profit(pool, vpool, last'.type, last'.swaps[1].amount).v]_vars


\* ------------------------------------------------------------------ C30
\* the step is a perform_pool_replenishing call on positive reserves
Replenishes ==
    /\ last'.op = "perform_pool_replenishing" /\ steps' = steps + 1
    /\ RGt(vpool.quantity_token_a, Zero) /\ RGt(vpool.quantity_token_b, Zero)

\* C30: perform_pool_replenishing completes without error in every reachable
\* state of a virtual pool with positive reserves, also when restore_delta
\* leaves delta unchanged (delta = 0 on a new or reset pool, a zero first slot
\* of the Improved window), and then leaves both reserves unchanged.
C30_ReplenishingCompletes ==
    [][Replenishes =>
         /\ last'.ok
         /\ (vpool'.delta = vpool.delta =>
                /\ vpool'.quantity_token_a = vpool.quantity_token_a
                /\ vpool'.quantity_token_b = vpool.quantity_token_b)]_vars

=============================================================================
